---- MODULE Spec2Model ----
(***************************************************************************)
(* Library Management System (src/lms.py): the three record sets users,   *)
(* books and issues kept in one sqlite database, and the handlers of the   *)
(* text menus that read and write them.                                    *)
(*                                                                         *)
(* Text typed at a prompt is a sequence of one-character strings, so that  *)
(* str.isdigit, int, strptime and strftime are modelled by what they do.   *)
(***************************************************************************)
EXTENDS Integers, Sequences, FiniteSets, TLC

\* ------------------------------------------------------------------ text

Digits == {"0", "1", "2", "3", "4", "5", "6", "7", "8", "9"}

DigitVal(c) ==
    CASE c = "0" -> 0 [] c = "1" -> 1 [] c = "2" -> 2 [] c = "3" -> 3
      [] c = "4" -> 4 [] c = "5" -> 5 [] c = "6" -> 6 [] c = "7" -> 7
      [] c = "8" -> 8 [] c = "9" -> 9

DigitChar(n) ==
    CASE n = 0 -> "0" [] n = 1 -> "1" [] n = 2 -> "2" [] n = 3 -> "3"
      [] n = 4 -> "4" [] n = 5 -> "5" [] n = 6 -> "6" [] n = 7 -> "7"
      [] n = 8 -> "8" [] n = 9 -> "9"

\* str.isdigit(): non-empty and every character a digit
IsDigit(s) == Len(s) > 0 /\ \A i \in 1..Len(s) : s[i] \in Digits

\* int(s) of a digit string
RECURSIVE ToInt(_)
ToInt(s) ==
    IF Len(s) = 0 THEN 0
    ELSE 10 * ToInt(SubSeq(s, 1, Len(s) - 1)) + DigitVal(s[Len(s)])

\* the decimal text of n, zero-padded to w characters ('%04d', '%02d')
RECURSIVE Pad(_, _)
Pad(n, w) ==
    IF w = 0 THEN << >> ELSE Pad(n \div 10, w - 1) \o << DigitChar(n % 10) >>

\* s.strip() or default
OrDefault(s, d) == IF Len(s) = 0 THEN d ELSE s

\* ----------------------------------------------------------------- dates

\* the length of the loan when no return date is entered
LoanDays == 14

IsLeap(y) == y % 4 = 0 /\ (y % 100 # 0 \/ y % 400 = 0)

DaysInMonth(y, m) ==
    IF m = 2 THEN (IF IsLeap(y) THEN 29 ELSE 28)
    ELSE IF m \in {4, 6, 9, 11} THEN 30 ELSE 31

\* days of the year before the first of month m
RECURSIVE DaysBeforeMonth(_, _)
DaysBeforeMonth(y, m) ==
    IF m = 1 THEN 0 ELSE DaysBeforeMonth(y, m - 1) + DaysInMonth(y, m - 1)

\* days before January 1st of year y
DaysBeforeYear(y) ==
    LET p == y - 1 IN p * 365 + p \div 4 - p \div 100 + p \div 400

\* date.toordinal(): 0001-01-01 is day 1
ToOrdinal(dt) == DaysBeforeYear(dt.y) + DaysBeforeMonth(dt.y, dt.m) + dt.d

\* date.fromordinal(n), computed by 400-, 100-, 4- and 1-year cycles
FromOrdinal(n) ==
    LET n0   == n - 1
        n400 == n0 \div 146097
        r400 == n0 % 146097
        n100 == r400 \div 36524
        r100 == r400 % 36524
        n4   == r100 \div 1461
        r4   == r100 % 1461
        n1   == r4 \div 365
        r1   == r4 % 365
        year == n400 * 400 + 1 + n100 * 100 + n4 * 4 + n1
    IN  IF n1 = 4 \/ n100 = 4
        THEN [y |-> year - 1, m |-> 12, d |-> 31]
        ELSE LET guess == (r1 + 50) \div 32
                 month == IF DaysBeforeMonth(year, guess) > r1
                          THEN guess - 1 ELSE guess
             IN  [y |-> year, m |-> month,
                  d |-> r1 - DaysBeforeMonth(year, month) + 1]

MinOrdinal == ToOrdinal([y |-> 1, m |-> 1, d |-> 1])
MaxOrdinal == ToOrdinal([y |-> 9999, m |-> 12, d |-> 31])

\* what strptime and date arithmetic raise instead of returning a date
ValueError == [err |-> "ValueError"]
OverflowError == [err |-> "OverflowError"]
IsDate(r) == "y" \in DOMAIN r

\* AddDays with the days added to the day of the month, nothing carried
AddDays_no_carry(dt, k) == [dt EXCEPT !.d = @ + k]

\* date + timedelta(days = k): outside 0001-01-01..9999-12-31 it raises
AddDays(dt, k) ==
    LET n == ToOrdinal(dt) + k
    IN  IF n < MinOrdinal \/ n > MaxOrdinal THEN OverflowError ELSE FromOrdinal(n)

\* the fields of a text between the "-" characters
RECURSIVE SplitDash(_)
SplitDash(s) ==
    IF \A i \in 1..Len(s) : s[i] # "-" THEN << s >>
    ELSE LET k == CHOOSE i \in 1..Len(s) :
                      s[i] = "-" /\ \A j \in 1..(i - 1) : s[j] # "-"
         IN  << SubSeq(s, 1, k - 1) >> \o SplitDash(SubSeq(s, k + 1, Len(s)))

\* datetime.strptime(s, DATEFMT).date(): %Y is four digits, %m one or two
\* digits in 1..12, %d one or two digits in 1..31, the whole text must match
\* and the day must exist in the month
Strptime(s) ==
    LET f == SplitDash(s)
    IN  IF Len(f) # 3 THEN ValueError
        ELSE IF ~(IsDigit(f[1]) /\ Len(f[1]) = 4) THEN ValueError
        ELSE IF ~(IsDigit(f[2]) /\ Len(f[2]) \in {1, 2}) THEN ValueError
        ELSE IF ~(IsDigit(f[3]) /\ Len(f[3]) \in {1, 2}) THEN ValueError
        ELSE LET y == ToInt(f[1])
                 m == ToInt(f[2])
                 d == ToInt(f[3])
             IN  IF y < 1 \/ m < 1 \/ m > 12 \/ d < 1 \/ d > 31 THEN ValueError
                 ELSE IF d > DaysInMonth(y, m) THEN ValueError
                 ELSE [y |-> y, m |-> m, d |-> d]

\* date.strftime(DATEFMT), for the four-digit years the model uses
Strftime(dt) == Pad(dt.y, 4) \o << "-" >> \o Pad(dt.m, 2) \o << "-" >> \o Pad(dt.d, 2)

\* --------------------------------------------------------------- bounds

\* The seed of the demonstration data is scaled down: the program seeds 20
\* books, issues the first 9 of them, to 5 members taken in turn.

\* where every operation is at play: the seed, and how many rows the menus
\* may add to each table after it
SeedBooks == 1
SeedIssued == 1
SeedMembers == 1
NewUsers == 0
NewBooks == 1
NewIssues == 1

\* where only loans are at play: the seed, and how many loans the menus add
LoanBooks == 3
LoanIssued == 2
LoanMembers == 1
LoanIssues == 2

\* where the dates are at play: how many loans the menus add to the seed
DateIssues == 1

\* where the accounts are at play: how many accounts the menus add to the seed
AcctUsers == 1

\* ------------------------------------------------------------- database

\* hashlib.sha256(password).hexdigest(): one digest per password
hash_password(password) == << "sha256", password >>

\* create_tables: three empty tables; seq is sqlite_sequence, the largest
\* identifier AUTOINCREMENT has handed out in each table
create_tables ==
    [users |-> {}, books |-> {}, issues |-> {},
     seq |-> [users |-> 0, books |-> 0, issues |-> 0]]

Roles == {"admin", "user"}
Statuses == {"Available", "Issued"}

\* A statement applied to the connection's view of the database gives the
\* new view, and err = TRUE for sqlite3.IntegrityError (the view unchanged).
Ok(v) == [view |-> v, err |-> FALSE]
IntegrityError(v) == [view |-> v, err |-> TRUE]

\* InsertUser on a table whose username column is not UNIQUE
InsertUser_not_unique(v, username, password, role) ==
    IF role \notin {"admin", "user"} THEN [view |-> v, err |-> TRUE]
    ELSE LET id == v.seq.users + 1
         IN  [view |-> [v EXCEPT !.users = @ \cup {[id |-> id, username |-> username,
                                                     password |-> password, role |-> role]},
                                 !.seq.users = id],
              err |-> FALSE]

\* INSERT INTO users (username,password,role,created_at): username UNIQUE,
\* role CHECK(role IN ('admin','user'))
InsertUser(v, username, password, role) ==
    IF (\E u \in v.users : u.username = username) \/ role \notin Roles
    THEN IntegrityError(v)
    ELSE LET id == v.seq.users + 1
         IN  Ok([v EXCEPT !.users = @ \cup {[id |-> id, username |-> username,
                                              password |-> password, role |-> role]},
                          !.seq.users = id])

\* InsertBook on a table without AUTOINCREMENT: the new identifier is one
\* more than the largest in the table
InsertBook_rowid(v, title, author, category, status) ==
    IF status \notin {"Available", "Issued"} THEN IntegrityError(v)
    ELSE LET largest == IF v.books = {} THEN 0
                        ELSE CHOOSE n \in {b.id : b \in v.books} :
                                 \A b \in v.books : b.id <= n
             id == largest + 1
         IN  Ok([v EXCEPT !.books = @ \cup {[id |-> id, title |-> title, author |-> author,
                                              category |-> category, status |-> status]},
                          !.seq.books = IF id > @ THEN id ELSE @])

\* INSERT INTO books (title,author,category,status)
InsertBook(v, title, author, category, status) ==
    IF status \notin Statuses THEN IntegrityError(v)
    ELSE LET id == v.seq.books + 1
         IN  Ok([v EXCEPT !.books = @ \cup {[id |-> id, title |-> title, author |-> author,
                                              category |-> category, status |-> status]},
                          !.seq.books = id])

\* INSERT INTO issues (book_id,user_id,issue_date,return_date,returned):
\* the foreign keys are declared and, as sqlite leaves them, not enforced
InsertIssue(v, book_id, user_id, issue_date, return_date, returned) ==
    LET id == v.seq.issues + 1
    IN  Ok([v EXCEPT !.issues = @ \cup {[id |-> id, book_id |-> book_id, user_id |-> user_id,
                                          issue_date |-> issue_date,
                                          return_date |-> return_date,
                                          returned |-> returned]},
                     !.seq.issues = id])

\* SetBookStatus without its WHERE: every book gets the status
SetBookStatus_all(v, book_id, status) ==
    Ok([v EXCEPT !.books = {[b EXCEPT !.status = status] : b \in @}])

\* UPDATE books SET status=? WHERE id=?
SetBookStatus(v, book_id, status) ==
    IF status \notin Statuses /\ (\E b \in v.books : b.id = book_id)
    THEN IntegrityError(v)
    ELSE Ok([v EXCEPT !.books =
                 {IF b.id = book_id THEN [b EXCEPT !.status = status] ELSE b : b \in @}])

\* UPDATE books SET title=?,author=?,category=?,status=? WHERE id=?
SetBook(v, book_id, title, author, category, status) ==
    IF status \notin Statuses /\ (\E b \in v.books : b.id = book_id)
    THEN IntegrityError(v)
    ELSE Ok([v EXCEPT !.books =
                 {IF b.id = book_id
                  THEN [b EXCEPT !.title = title, !.author = author,
                                 !.category = category, !.status = status]
                  ELSE b : b \in @}])

\* DeleteBookRow taking the loans of the book with it
DeleteBookRow_cascade(v, book_id) ==
    Ok([v EXCEPT !.books = {b \in @ : b.id # book_id},
                 !.issues = {i \in @ : i.book_id # book_id}])

\* DELETE FROM books WHERE id=?
DeleteBookRow(v, book_id) == Ok([v EXCEPT !.books = {b \in @ : b.id # book_id}])

\* UPDATE issues SET returned=1 WHERE id=?
SetReturned(v, issue_id) ==
    Ok([v EXCEPT !.issues =
            {IF i.id = issue_id THEN [i EXCEPT !.returned = 1] ELSE i : i \in @}])

\* UPDATE users SET username=?,role=? WHERE id=? ("" leaves a column out)
SetUser(v, user_id, new_username, new_role) ==
    LET hit == {u \in v.users : u.id = user_id}
    IN  IF hit # {} /\ ((new_username # "" /\ \E u \in v.users :
                             u.id # user_id /\ u.username = new_username)
                        \/ (new_role # "" /\ new_role \notin Roles))
        THEN IntegrityError(v)
        ELSE Ok([v EXCEPT !.users =
                     {IF u.id = user_id
                      THEN [u EXCEPT !.username = IF new_username # "" THEN new_username ELSE @,
                                     !.role = IF new_role # "" THEN new_role ELSE @]
                      ELSE u : u \in @}])

\* DeleteUserRow on a table that keeps a user referenced by an open loan
DeleteUserRow_on_loan(v, user_id) ==
    IF \E i \in v.issues : i.user_id = user_id /\ i.returned = 0 THEN Ok(v)
    ELSE Ok([v EXCEPT !.users = {u \in @ : u.id # user_id}])

\* DELETE FROM users WHERE id=?
DeleteUserRow(v, user_id) == Ok([v EXCEPT !.users = {u \in @ : u.id # user_id}])

\* UPDATE users SET password=? WHERE id=?
SetPasswordById(v, user_id, hashed) ==
    Ok([v EXCEPT !.users =
            {IF u.id = user_id THEN [u EXCEPT !.password = hashed] ELSE u : u \in @}])

\* UPDATE users SET password=? WHERE username=?
SetPasswordByName(v, username, hashed) ==
    Ok([v EXCEPT !.users =
            {IF u.username = username THEN [u EXCEPT !.password = hashed] ELSE u : u \in @}])

\* A connection: what is on disk, and the view that holds its uncommitted
\* writes. sqlite3 opens a transaction at the first write after a commit.
get_connection(d) == [disk |-> d, view |-> d]

\* Execute on a connection in autocommit mode: each write reaches the disk
Execute_autocommit(conn, r) == [disk |-> r.view, view |-> r.view]

\* c.execute of a write: it changes the view alone
Execute(conn, r) == [conn EXCEPT !.view = r.view]

\* conn.commit()
Commit(conn) == [conn EXCEPT !.disk = conn.view]

\* the process stops: what was not committed is rolled back
Stop(conn) == conn.disk

\* ----------------------------------------------------------------- seed

\* the rows of a table in identifier order, as a SELECT without ORDER BY
\* returns them
RECURSIVE InIdOrder(_)
InIdOrder(rows) ==
    IF rows = {} THEN << >>
    ELSE LET r == CHOOSE x \in rows : \A z \in rows : x.id <= z.id
         IN  << r >> \o InIdOrder(rows \ {r})

\* the first n elements of a sequence (LIMIT n)
Limit(q, n) == SubSeq(q, 1, IF Len(q) < n THEN Len(q) ELSE n)

SeedUsers ==
    << [username |-> "admin", password |-> "admin123", role |-> "admin"],
       [username |-> "user1", password |-> "pass1", role |-> "user"],
       [username |-> "user2", password |-> "pass2", role |-> "user"],
       [username |-> "user3", password |-> "pass3", role |-> "user"],
       [username |-> "user4", password |-> "pass4", role |-> "user"],
       [username |-> "user5", password |-> "pass5", role |-> "user"] >>

sample_books ==
    << [title |-> "To Kill a Mockingbird", author |-> "Harper Lee", category |-> "Fiction"],
       [title |-> "1984", author |-> "George Orwell", category |-> "Fiction"],
       [title |-> "A Brief History of Time", author |-> "Stephen Hawking", category |-> "Science"],
       [title |-> "The Selfish Gene", author |-> "Richard Dawkins", category |-> "Science"],
       [title |-> "The Alchemist", author |-> "Paulo Coelho", category |-> "Fiction"],
       [title |-> "Clean Code", author |-> "Robert C. Martin", category |-> "Programming"] >>

\* executemany of the INSERT over a list of rows
RECURSIVE InsertUsers(_, _)
InsertUsers(v, rows) ==
    IF rows = << >> THEN v
    ELSE InsertUsers(InsertUser(v, Head(rows).username, hash_password(Head(rows).password),
                                Head(rows).role).view, Tail(rows))

RECURSIVE InsertBooks(_, _)
InsertBooks(v, rows) ==
    IF rows = << >> THEN v
    ELSE InsertBooks(InsertBook(v, Head(rows).title, Head(rows).author,
                                Head(rows).category, "Available").view, Tail(rows))

\* the seeded loans: book i (from 0) goes to member i modulo the number of
\* members, issued 2 + i days ago and due in 14 - i days
RECURSIVE InsertSeedIssues(_, _, _, _, _)
InsertSeedIssues(v, book_ids, user_ids, today, i) ==
    IF i >= Len(book_ids) THEN v
    ELSE InsertSeedIssues(
             InsertIssue(v, book_ids[i + 1].id, user_ids[(i % Len(user_ids)) + 1].id,
                         Strftime(AddDays(today, 0 - (2 + i))),
                         Strftime(AddDays(today, 14 - i)), 0).view,
             book_ids, user_ids, today, i + 1)

RECURSIVE MarkIssued(_, _)
MarkIssued(v, book_ids) ==
    IF book_ids = << >> THEN v
    ELSE MarkIssued(SetBookStatus(v, Head(book_ids).id, "Issued").view, Tail(book_ids))

\* seed_demo_data: each table is seeded when it is empty, and committed;
\* seed gives the sizes: members and books seeded, books issued
seed_demo_data(d, today, seed) ==
    LET d1 == IF d.users = {}
              THEN InsertUsers(d, Limit(SeedUsers, 1 + seed.members)) ELSE d
        d2 == IF d1.books = {}
              THEN InsertBooks(d1, Limit(sample_books, seed.books)) ELSE d1
        book_ids == Limit(InIdOrder(d2.books), seed.issued)
        user_ids == InIdOrder({u \in d2.users : u.role = "user"})
    IN  IF d2.issues = {} /\ Len(user_ids) > 0 /\ Len(book_ids) > 0
        THEN MarkIssued(InsertSeedIssues(d2, book_ids, user_ids, today, 0), book_ids)
        ELSE d2

\* ---------------------------------------------------------------- state

VARIABLES
    db,        \* the database file: users, books, issues, sqlite_sequence
    pc,        \* where the process is: stopped, crashed, main, admin, user, chpw
    session,   \* the account that logged in, as read at login
    last       \* the last handler run, the identifier it was given, its last message

vars == << db, pc, session, last >>

NoSession == [id |-> 0, role |-> ""]
NoText == << >>

\* what a handler leaves in last
Ran(op, arg, msg) == [op |-> op, arg |-> arg, msg |-> msg]

\* the database before the first run: no file, so no table holds a row
Init ==
    /\ db = create_tables
    /\ pc = "stopped"
    /\ session = NoSession
    /\ last = Ran("none", NoText, "")

\* ------------------------------------------------------------- handlers
\* A handler reads what is typed and gives: the last message it prints, the
\* connection after each of its writes (commit comes after the last), and
\* whether it raised an exception that nothing catches.

Printed(msg) == [msg |-> msg, steps |-> << >>, raised |-> FALSE]
Wrote(msg, steps) == [msg |-> msg, steps |-> steps, raised |-> FALSE]
Raised(exc) == [msg |-> exc.err, steps |-> << >>, raised |-> TRUE]

\* issue_book without its test of the book's status
issue_book_unchecked(d, book_id, user_id, issue_in, return_in, today) ==
    IF ~IsDigit(book_id) THEN Printed("Invalid ID.")
    ELSE IF ~\E b \in d.books : b.id = ToInt(book_id) THEN Printed("Book not found.")
    ELSE IF ~IsDigit(user_id) THEN Printed("Invalid user ID.")
    ELSE IF ~\E u \in d.users : u.id = ToInt(user_id) THEN Printed("User not found.")
    ELSE LET issue_date == OrDefault(issue_in, Strftime(today))
             dt_issue == Strptime(issue_date)
             due == IF IsDate(dt_issue) THEN AddDays(dt_issue, LoanDays) ELSE dt_issue
         IN
         IF return_in = << >> /\ ~IsDate(due) THEN Raised(due)
         ELSE LET return_date == IF return_in = << >> THEN Strftime(due) ELSE return_in
                  c0 == get_connection(d)
                  c1 == Execute(c0, InsertIssue(c0.view, ToInt(book_id), ToInt(user_id),
                                                issue_date, return_date, 0))
                  c2 == Execute(c1, SetBookStatus(c1.view, ToInt(book_id), "Issued"))
              IN  Wrote("Book issued successfully.", << c1, c2 >>)

\* issue_book: book_id and user_id as typed, the two dates as typed (empty
\* for a bare Enter), today from the clock
issue_book(d, book_id, user_id, issue_in, return_in, today) ==
    IF ~IsDigit(book_id) THEN Printed("Invalid ID.")
    ELSE LET book == {b \in d.books : b.id = ToInt(book_id)}
         IN
         IF book = {} THEN Printed("Book not found.")
         ELSE IF \E b \in book : b.status = "Issued" THEN Printed("Book is already issued.")
         ELSE IF ~IsDigit(user_id) THEN Printed("Invalid user ID.")
         ELSE IF ~\E u \in d.users : u.id = ToInt(user_id) THEN Printed("User not found.")
         ELSE LET issue_date == OrDefault(issue_in, Strftime(today))
                  dt_issue == Strptime(issue_date)
                  due == IF IsDate(dt_issue) THEN AddDays(dt_issue, LoanDays) ELSE dt_issue
              IN
              IF return_in = << >> /\ ~IsDate(due) THEN Raised(due)
              ELSE LET return_date == IF return_in = << >> THEN Strftime(due) ELSE return_in
                       c0 == get_connection(d)
                       c1 == Execute(c0, InsertIssue(c0.view, ToInt(book_id), ToInt(user_id),
                                                     issue_date, return_date, 0))
                       c2 == Execute(c1, SetBookStatus(c1.view, ToInt(book_id), "Issued"))
                   IN  Wrote("Book issued successfully.", << c1, c2 >>)

\* return_book without its write to books
return_book_keeps_issued(d, issue_id) ==
    IF ~IsDigit(issue_id) THEN Printed("Invalid issue ID.")
    ELSE IF ~\E i \in d.issues : i.id = ToInt(issue_id) THEN Printed("Issue record not found.")
    ELSE IF \E i \in d.issues : i.id = ToInt(issue_id) /\ i.returned # 0
         THEN Printed("Book already returned.")
    ELSE LET c0 == get_connection(d)
         IN  Wrote("Book returned successfully.",
                   << Execute(c0, SetReturned(c0.view, ToInt(issue_id))) >>)

\* return_book without its write to issues
return_book_status_only(d, issue_id) ==
    IF ~IsDigit(issue_id) THEN Printed("Invalid issue ID.")
    ELSE IF ~\E i \in d.issues : i.id = ToInt(issue_id) THEN Printed("Issue record not found.")
    ELSE IF \E i \in d.issues : i.id = ToInt(issue_id) /\ i.returned # 0
         THEN Printed("Book already returned.")
    ELSE LET book_id == (CHOOSE i \in d.issues : i.id = ToInt(issue_id)).book_id
             c0 == get_connection(d)
         IN  Wrote("Book returned successfully.",
                   << Execute(c0, SetBookStatus(c0.view, book_id, "Available")) >>)

\* return_book without its test of the returned flag
return_book_again(d, issue_id) ==
    IF ~IsDigit(issue_id) THEN Printed("Invalid issue ID.")
    ELSE IF ~\E i \in d.issues : i.id = ToInt(issue_id) THEN Printed("Issue record not found.")
    ELSE LET book_id == (CHOOSE i \in d.issues : i.id = ToInt(issue_id)).book_id
             c0 == get_connection(d)
             c1 == Execute(c0, SetReturned(c0.view, ToInt(issue_id)))
             c2 == Execute(c1, SetBookStatus(c1.view, book_id, "Available"))
         IN  Wrote("Book returned successfully.", << c1, c2 >>)

\* return_book without its test that the row exists
return_book_unchecked_id(d, issue_id) ==
    IF ~IsDigit(issue_id) THEN Printed("Invalid issue ID.")
    ELSE IF \E i \in d.issues : i.id = ToInt(issue_id) /\ i.returned # 0
         THEN Printed("Book already returned.")
    ELSE LET c0 == get_connection(d)
             c1 == Execute(c0, SetReturned(c0.view, ToInt(issue_id)))
             c2 == IF \E i \in d.issues : i.id = ToInt(issue_id)
                   THEN Execute(c1, SetBookStatus(c1.view,
                            (CHOOSE i \in d.issues : i.id = ToInt(issue_id)).book_id,
                            "Available"))
                   ELSE c1
         IN  Wrote("Book returned successfully.", << c1, c2 >>)

\* return_book: issue_id as typed
return_book(d, issue_id) ==
    IF ~IsDigit(issue_id) THEN Printed("Invalid issue ID.")
    ELSE LET issue == {i \in d.issues : i.id = ToInt(issue_id)}
         IN
         IF issue = {} THEN Printed("Issue record not found.")
         ELSE IF \E i \in issue : i.returned # 0 THEN Printed("Book already returned.")
         ELSE LET book_id == (CHOOSE i \in issue : TRUE).book_id
                  c0 == get_connection(d)
                  c1 == Execute(c0, SetReturned(c0.view, ToInt(issue_id)))
                  c2 == Execute(c1, SetBookStatus(c1.view, book_id, "Available"))
              IN  Wrote("Book returned successfully.", << c1, c2 >>)

\* add_book storing the new book as Issued
add_book_issued(d, title, author, category) ==
    LET c0 == [disk |-> d, view |-> d]
    IN  [msg |-> "Book added.",
         steps |-> << [c0 EXCEPT !.view =
                          InsertBook(c0.view, title, author, category, "Issued").view] >>,
         raised |-> FALSE]

\* add_book: three non-blank texts
add_book(d, title, author, category) ==
    LET c0 == get_connection(d)
    IN  Wrote("Book added.",
              << Execute(c0, InsertBook(c0.view, title, author, category, "Available")) >>)

\* update_book: a blank entry keeps the column, a status outside the two
\* keeps the status
update_book(d, book_id, title_in, author_in, category_in, status_in) ==
    IF ~IsDigit(book_id) THEN Printed("Invalid ID.")
    ELSE LET hit == {b \in d.books : b.id = ToInt(book_id)}
         IN
         IF hit = {} THEN Printed("Book not found.")
         ELSE LET row == CHOOSE b \in hit : TRUE
                  title == IF title_in = "" THEN row.title ELSE title_in
                  author == IF author_in = "" THEN row.author ELSE author_in
                  category == IF category_in = "" THEN row.category ELSE category_in
                  entered == IF status_in = "" THEN row.status ELSE status_in
                  status == IF entered \notin {"Available", "Issued"}
                            THEN row.status ELSE entered
                  c0 == get_connection(d)
              IN  Wrote("Book updated.",
                        << Execute(c0, SetBook(c0.view, ToInt(book_id), title, author,
                                               category, status)) >>)

\* delete_book
delete_book(d, book_id) ==
    IF ~IsDigit(book_id) THEN Printed("Invalid ID.")
    ELSE LET c0 == get_connection(d)
         IN  Wrote("Book deleted (if existed).",
                   << Execute(c0, DeleteBookRow(c0.view, ToInt(book_id))) >>)

\* create_user: the INSERT, or the message for IntegrityError
create_user(d, username, password, role) ==
    LET c0 == get_connection(d)
        r == InsertUser(c0.view, username, hash_password(password), role)
    IN  IF r.err THEN Printed("Error: Username already exists.")
        ELSE Wrote("User created:", << Execute(c0, r) >>)

\* update_user: "" stands for None
update_user(d, user_id, new_username, new_role) ==
    IF new_username = "" /\ new_role = "" THEN Printed("Nothing to update.")
    ELSE LET c0 == get_connection(d)
             r == SetUser(c0.view, user_id, new_username, new_role)
         IN  IF r.err THEN Printed("Error: Username may already exist.")
             ELSE Wrote("User updated.", << Execute(c0, r) >>)

\* delete_user
delete_user(d, user_id) ==
    LET c0 == get_connection(d)
    IN  Wrote("User deleted (if existed).", << Execute(c0, DeleteUserRow(c0.view, user_id)) >>)

\* menu_create_user without its test of the role
menu_create_user_unchecked(d, username, pwd, role) ==
    LET c0 == [disk |-> d, view |-> d]
        r == InsertUser(c0.view, username, << "sha256", pwd >>, role)
    IN  IF r.err THEN [msg |-> "Error: Username already exists.", steps |-> << >>,
                       raised |-> FALSE]
        ELSE [msg |-> "User created:", steps |-> << [c0 EXCEPT !.view = r.view] >>,
              raised |-> FALSE]

\* admin_user_management, choices 1 to 3: what the menu checks before it
\* calls create_user, update_user and delete_user
menu_create_user(d, username, pwd, role) ==
    IF role \notin {"admin", "user"} THEN Printed("Invalid role.")
    ELSE create_user(d, username, pwd, role)

menu_update_user(d, uid, new_username, new_role) ==
    IF ~IsDigit(uid) THEN Printed("Invalid ID.")
    ELSE IF new_role # "" /\ new_role \notin {"admin", "user"} THEN Printed("Invalid role.")
    ELSE update_user(d, ToInt(uid), new_username, new_role)

menu_delete_user(d, uid) ==
    IF ~IsDigit(uid) THEN Printed("Invalid ID.") ELSE delete_user(d, ToInt(uid))

\* reset_user_password: new_pass is asked for once the username is found
reset_user_password(d, username, new_pass) ==
    IF ~\E u \in d.users : u.username = username THEN Printed("User does not exist.")
    ELSE LET c0 == get_connection(d)
         IN  Wrote("Password has been reset successfully.",
                   << Execute(c0, SetPasswordByName(c0.view, username,
                                                    hash_password(new_pass))) >>)

\* change_password without the confirmation of the new password
change_password_unconfirmed(d, user_id, pwd, pwd2) ==
    IF pwd = "" THEN [msg |-> "Password cannot be blank.", steps |-> << >>, raised |-> FALSE]
    ELSE LET c0 == [disk |-> d, view |-> d]
         IN  [msg |-> "Password changed successfully.",
              steps |-> << [c0 EXCEPT !.view.users =
                               {IF u.id = user_id
                                THEN [u EXCEPT !.password = << "sha256", pwd >>]
                                ELSE u : u \in @}] >>,
              raised |-> FALSE]

\* change_password, one turn of its loop: pwd and pwd2 as typed
change_password(d, user_id, pwd, pwd2) ==
    IF pwd = "" THEN Printed("Password cannot be blank.")
    ELSE IF pwd # pwd2 THEN Printed("Passwords do not match.")
    ELSE LET c0 == get_connection(d)
         IN  Wrote("Password changed successfully.",
                   << Execute(c0, SetPasswordById(c0.view, user_id, hash_password(pwd))) >>)

\* authenticate: the rows (none or one) of the account that logs in
authenticate(d, username, pwd) ==
    {u \in d.users : u.username = username /\ u.password = hash_password(pwd)}

\* -------------------------------------------------------------- actions

\* the sizes of a run of the model: those of the seed, and the largest
\* identifiers, which are those of the seed and of the rows added after it
Lim(seed, users, books, issues) ==
    [seed |-> seed, users |-> 1 + seed.members + users, books |-> seed.books + books,
     issues |-> seed.issued + issues]

\* the database stays within the identifiers of lim
Within(lim, d) ==
    d.seq.users <= lim.users /\ d.seq.books <= lim.books /\ d.seq.issues <= lim.issues

\* what is typed at an identifier prompt: the identifiers up to one past
\* the largest, and a text that is not a number
IdInputs(n) == {<< DigitChar(k) >> : k \in 1..(n + 1)} \cup {<< "x" >>}

\* the database once a handler has committed the last of its writes
Committed(r) == IF r.steps = << >> THEN db ELSE Commit(r.steps[Len(r.steps)]).disk

\* the handler runs to its end: the menu loop goes on at menu, unless an
\* exception reached the top of main
Returns(lim, r, menu, l) ==
    /\ Within(lim, Committed(r))
    /\ db' = Committed(r)
    /\ pc' = IF r.raised THEN "crashed" ELSE menu
    /\ session' = IF r.raised THEN NoSession ELSE session
    /\ last' = l

\* the process stops after the k-th write of the handler, before its commit
StopsAfter(lim, r, k, l) ==
    /\ k \in 1..Len(r.steps)
    /\ Within(lim, r.steps[k].view)
    /\ db' = Stop(r.steps[k])
    /\ pc' = "stopped"
    /\ session' = NoSession
    /\ last' = l

\* main: initialize_database, then the login menu
Start(lim, todays) ==
    /\ pc \in {"stopped", "crashed"}
    /\ \E today \in todays :
           /\ Within(lim, seed_demo_data(db, today, lim.seed))
           /\ db' = seed_demo_data(db, today, lim.seed)
    /\ pc' = "main"
    /\ session' = NoSession
    /\ last' = Ran("main", NoText, "")

\* Login that gives every account the admin menu
Login_admin_menu(usernames, passwords) ==
    /\ pc = "main"
    /\ \E username \in usernames, pwd \in passwords :
           LET user == authenticate(db, username, pwd)
           IN  IF user = {}
               THEN /\ pc' = "main"
                    /\ session' = [id |-> 0, role |-> ""]
                    /\ last' = [op |-> "authenticate", arg |-> << >>,
                                msg |-> "Invalid username or password."]
               ELSE LET u == CHOOSE x \in user : TRUE
                    IN  /\ pc' = "admin"
                        /\ session' = [id |-> u.id, role |-> u.role]
                        /\ last' = [op |-> "authenticate", arg |-> << >>, msg |-> ""]
    /\ UNCHANGED db

\* main, choice 1: authenticate, then the menu of the account's role
Login(usernames, passwords) ==
    /\ pc = "main"
    /\ \E username \in usernames, pwd \in passwords :
           LET user == authenticate(db, username, pwd)
           IN  IF user = {}
               THEN /\ pc' = "main"
                    /\ session' = NoSession
                    /\ last' = Ran("authenticate", NoText, "Invalid username or password.")
               ELSE LET u == CHOOSE x \in user : TRUE
                    IN  /\ pc' = IF u.role = "admin" THEN "admin" ELSE "user"
                        /\ session' = [id |-> u.id, role |-> u.role]
                        /\ last' = Ran("authenticate", NoText, "")
    /\ UNCHANGED db

\* admin_menu and user_menu, choice 0
Logout ==
    /\ pc \in {"admin", "user"}
    /\ pc' = "main"
    /\ session' = NoSession
    /\ last' = Ran("logout", NoText, "")
    /\ UNCHANGED db

\* main, choice 2
Exit ==
    /\ pc = "main"
    /\ pc' = "stopped"
    /\ last' = Ran("exit", NoText, "Goodbye!")
    /\ UNCHANGED << db, session >>

\* issue_book asks for the user once the book has passed, and for the dates
\* once the user has passed: the texts it can be given at each prompt, NoText
\* alone at a prompt that is not shown
IssueUserPrompt(lim, book_id) ==
    IF IsDigit(book_id) /\ \E b \in db.books : b.id = ToInt(book_id) /\ b.status # "Issued"
    THEN IdInputs(lim.users) ELSE {NoText}

IssueDatePrompt(user_id, dates) ==
    IF IsDigit(user_id) /\ \E u \in db.users : u.id = ToInt(user_id)
    THEN dates ELSE {NoText}

\* issue_return_menu, choice 1
IssueBook(lim, todays, issue_dates, return_dates) ==
    /\ pc = "admin"
    /\ \E book_id \in IdInputs(lim.books), today \in todays :
       \E user_id \in IssueUserPrompt(lim, book_id) :
       \E issue_in \in IssueDatePrompt(user_id, issue_dates),
          return_in \in IssueDatePrompt(user_id, return_dates) :
           LET r == issue_book(db, book_id, user_id, issue_in, return_in, today)
           IN  Returns(lim, r, pc, Ran("issue_book", book_id, r.msg))

\* issue_book, the process stopping between its writes and its commit
IssueBookStopped(lim, todays, issue_dates, return_dates) ==
    /\ pc = "admin"
    /\ \E book_id \in IdInputs(lim.books), today \in todays :
       \E user_id \in IssueUserPrompt(lim, book_id) :
       \E issue_in \in IssueDatePrompt(user_id, issue_dates),
          return_in \in IssueDatePrompt(user_id, return_dates) :
           LET r == issue_book(db, book_id, user_id, issue_in, return_in, today)
           IN  \E k \in 1..Len(r.steps) :
                   StopsAfter(lim, r, k, Ran("issue_book", book_id, "stopped"))

\* issue_return_menu choice 2, user_menu choice 3
ReturnBook(lim) ==
    /\ pc \in {"admin", "user"}
    /\ \E issue_id \in IdInputs(lim.issues) :
           LET r == return_book(db, issue_id)
           IN  Returns(lim, r, pc, Ran("return_book", issue_id, r.msg))

\* return_book, the process stopping between its writes and its commit
ReturnBookStopped(lim) ==
    /\ pc \in {"admin", "user"}
    /\ \E issue_id \in IdInputs(lim.issues) :
           LET r == return_book(db, issue_id)
           IN  \E k \in 1..Len(r.steps) :
                   StopsAfter(lim, r, k, Ran("return_book", issue_id, "stopped"))

\* admin_book_management, choice 1
AddBook(lim) ==
    /\ pc = "admin"
    /\ LET r == add_book(db, "Dune", "Frank Herbert", "Fiction")
       IN  Returns(lim, r, pc, Ran("add_book", NoText, r.msg))

\* update_book asks for the columns once the book is found
BookPrompt(book_id, texts) ==
    IF IsDigit(book_id) /\ \E b \in db.books : b.id = ToInt(book_id) THEN texts ELSE {""}

\* admin_book_management, choice 2
UpdateBook(lim, titles, statuses) ==
    /\ pc = "admin"
    /\ \E book_id \in IdInputs(lim.books) :
       \E title_in \in BookPrompt(book_id, titles), status_in \in BookPrompt(book_id, statuses) :
           LET r == update_book(db, book_id, title_in, "", "", status_in)
           IN  Returns(lim, r, pc, Ran("update_book", NoText, r.msg))

\* admin_book_management, choice 3
DeleteBook(lim) ==
    /\ pc = "admin"
    /\ \E book_id \in IdInputs(lim.books) :
           LET r == delete_book(db, book_id)
           IN  Returns(lim, r, pc, Ran("delete_book", NoText, r.msg))

\* admin_user_management, choice 1
CreateUser(lim, usernames, passwords, roles) ==
    /\ pc = "admin"
    /\ \E username \in usernames, pwd \in passwords, role \in roles :
           LET r == menu_create_user(db, username, pwd, role)
           IN  Returns(lim, r, pc, Ran("create_user", NoText, r.msg))

\* admin_user_management, choice 2
UpdateUser(lim, usernames, roles) ==
    /\ pc = "admin"
    /\ \E uid \in IdInputs(lim.users) :
       \E new_username \in (IF IsDigit(uid) THEN usernames \cup {""} ELSE {""}),
          new_role \in (IF IsDigit(uid) THEN roles \cup {""} ELSE {""}) :
           LET r == menu_update_user(db, uid, new_username, new_role)
           IN  Returns(lim, r, pc, Ran("update_user", NoText, r.msg))

\* admin_user_management, choice 3
DeleteUser(lim) ==
    /\ pc = "admin"
    /\ \E uid \in IdInputs(lim.users) :
           LET r == menu_delete_user(db, uid)
           IN  Returns(lim, r, pc, Ran("delete_user", NoText, r.msg))

\* admin_menu, choice 8
ResetUserPassword(lim, usernames, passwords) ==
    /\ pc = "admin"
    /\ \E username \in usernames :
       \E new_pass \in (IF \E u \in db.users : u.username = username
                        THEN passwords \ {""} ELSE {""}) :
           LET r == reset_user_password(db, username, new_pass)
           IN  Returns(lim, r, pc, Ran("reset_user_password", NoText, r.msg))

\* admin_menu choice 9, user_menu choice 4: one turn of the loop of
\* change_password, which ends when a password is stored
ChangePassword(lim, passwords) ==
    /\ pc \in {"admin", "user", "chpw"}
    /\ \E pwd \in passwords :
       \E pwd2 \in (IF pwd = "" THEN {""} ELSE passwords) :
           LET r == change_password(db, session.id, pwd, pwd2)
               menu == IF session.role = "admin" THEN "admin" ELSE "user"
           IN  Returns(lim, r, IF r.steps = << >> THEN "chpw" ELSE menu,
                       Ran("change_password", NoText, r.msg))

\* ------------------------------------------------------- specifications

Today == [y |-> 2024, m |-> 3, d |-> 10]
Malformed == << "1", "s", "t" >>
April1 == << "2", "0", "2", "4", "-", "0", "4", "-", "0", "1" >>

\* every operation of the menus, with the fewest entries that take each
\* operation through its outcomes
AllLim ==
    Lim([books |-> SeedBooks, issued |-> SeedIssued, members |-> SeedMembers],
        NewUsers, NewBooks, NewIssues)

Next ==
    \/ Start(AllLim, {Today})
    \/ Login({"admin", "user1"}, {"admin123", "pass1"})
    \/ Logout
    \/ Exit
    \/ IssueBook(AllLim, {Today}, {NoText, Malformed}, {NoText})
    \/ IssueBookStopped(AllLim, {Today}, {NoText}, {NoText})
    \/ ReturnBook(AllLim)
    \/ ReturnBookStopped(AllLim)
    \/ AddBook(AllLim)
    \/ UpdateBook(AllLim, {""}, {"", "Available", "Issued", "Lost"})
    \/ DeleteBook(AllLim)
    \/ CreateUser(AllLim, {"eve"}, {"pass1"}, {"user", "staff"})
    \/ UpdateUser(AllLim, {"user1"}, {"staff"})
    \/ DeleteUser(AllLim)
    \/ ResetUserPassword(AllLim, {"user1"}, {"pass1"})
    \/ ChangePassword(AllLim, {"pass1", ""})

Spec == Init /\ [][Next]_vars

\* issue_book and return_book alone, from the seeded database
LoanLim ==
    Lim([books |-> LoanBooks, issued |-> LoanIssued, members |-> LoanMembers],
        0, 0, LoanIssues)

NextLoan ==
    \/ Start(LoanLim, {Today})
    \/ Login({"admin", "user1"}, {"admin123", "pass1"})
    \/ Logout
    \/ Exit
    \/ IssueBook(LoanLim, {Today}, {NoText, Malformed}, {NoText})
    \/ IssueBookStopped(LoanLim, {Today}, {NoText}, {NoText})
    \/ ReturnBook(LoanLim)
    \/ ReturnBookStopped(LoanLim)

SpecLoan == Init /\ [][NextLoan]_vars

\* issue_book over the dates that can be typed, and over the days it can run
NewYear == << "2", "0", "2", "4", "-", "0", "1", "-", "0", "1" >>
Unpadded == << "2", "0", "2", "4", "-", "2", "-", "9" >>
LeapFeb == << "2", "0", "2", "4", "-", "0", "2", "-", "2", "0" >>
PlainFeb == << "2", "0", "2", "3", "-", "0", "2", "-", "2", "0" >>
YearEnd == << "2", "0", "2", "3", "-", "1", "2", "-", "2", "5" >>
NoSuchDay == << "2", "0", "2", "3", "-", "0", "2", "-", "2", "9" >>
LastDays == << "9", "9", "9", "9", "-", "1", "2", "-", "2", "0" >>
DatesTyped == {NoText, NewYear, Unpadded, LeapFeb, PlainFeb, YearEnd, NoSuchDay,
               LastDays, Malformed}
Clock == {Today, [y |-> 2024, m |-> 12, d |-> 31], [y |-> 2100, m |-> 2, d |-> 15]}

DateLim ==
    Lim([books |-> SeedBooks, issued |-> SeedIssued, members |-> SeedMembers],
        0, 0, DateIssues)

NextDates ==
    \/ Start(DateLim, {Today})
    \/ Login({"admin"}, {"admin123"})
    \/ Logout
    \/ Exit
    \/ IssueBook(DateLim, Clock, DatesTyped, {NoText, April1, Malformed})
    \/ ReturnBook(DateLim)

SpecDates == Init /\ [][NextDates]_vars

\* --------------------------------------------------------------- claims

\* the issues rows with returned = 0 that reference book_id
OpenLoans(d, book_id) == {i \in d.issues : i.book_id = book_id /\ i.returned = 0}

\* the text of an identifier, as it is typed
IdText(n) == << DigitChar(n) >>

\* the identifier typed at the first prompt of the last handler
LastId == IF IsDigit(last.arg) THEN ToInt(last.arg) ELSE 0

\* C1: from the seeded database, under issue_book and return_book, a book
\* is Issued exactly when one issues row with returned = 0 references it,
\* and Available exactly when none does.
C1_StatusMatchesOpenLoans ==
    \A b \in db.books :
        /\ b.status = "Issued" <=> Cardinality(OpenLoans(db, b.id)) = 1
        /\ b.status = "Available" <=> OpenLoans(db, b.id) = {}

\* a loan made at the menu is open on an Issued book, after a return that
\* left another book Available with a closed loan
C1_Witness ==
    /\ last.op = "return_book" /\ last.msg = "Book returned successfully."
    /\ \E b \in db.books : b.status = "Issued" /\
           \E i \in OpenLoans(db, b.id) : i.id > LoanIssued
    /\ \E b \in db.books : b.status = "Available" /\
           \E i \in db.issues : i.book_id = b.id /\ i.returned = 1

\* C3: issue_book on a book whose status is Issued prints the
\* already-issued message whatever user and dates would be typed, and leaves
\* users, books and issues as they were.
C3_IssuedBookRefused ==
    [][\A b \in db.books : b.status = "Issued" =>
           /\ \A user_id \in IdInputs(LoanLim.users) \cup {NoText},
                 issue_in \in {NoText, Malformed, April1}, return_in \in {NoText, April1} :
                  issue_book(db, IdText(b.id), user_id, issue_in, return_in, Today)
                      = Printed("Book is already issued.")
           /\ (last'.op = "issue_book" /\ last'.arg = IdText(b.id)) =>
                  (last'.msg = "Book is already issued." /\ db' = db /\ pc' = pc)]_vars

\* issue_book has been run on an Issued book
C3_Witness ==
    /\ last.op = "issue_book" /\ last.msg = "Book is already issued."
    /\ \E b \in db.books : b.id = LastId /\ b.status = "Issued"

\* C4: return_book on an issues row whose returned flag is set prints the
\* already-returned message and changes neither the row nor any book, also
\* when the book has a newer open loan.
C4_ReturnedLoanRefused ==
    [][\A i \in db.issues : i.returned # 0 =>
           /\ return_book(db, IdText(i.id)) = Printed("Book already returned.")
           /\ (last'.op = "return_book" /\ last'.arg = IdText(i.id)) =>
                  (last'.msg = "Book already returned." /\ db' = db /\ pc' = pc)]_vars

\* return_book has been run on a closed loan whose book is out again under
\* a newer loan
C4_Witness ==
    /\ last.op = "return_book" /\ last.msg = "Book already returned."
    /\ \E i \in db.issues :
           /\ i.id = LastId /\ i.returned = 1
           /\ \E j \in OpenLoans(db, i.book_id) : j.id > i.id
           /\ \E b \in db.books : b.id = i.book_id /\ b.status = "Issued"

C7_NotFound ==
    [][/\ \A n \in 1..(LoanLim.books + 1) : (~\E b \in db.books : b.id = n) =>
              /\ \A user_id \in IdInputs(LoanLim.users) :
                     issue_book(db, IdText(n), user_id, NoText, NoText, Today)
                         = Printed("Book not found.")
              /\ (last'.op = "issue_book" /\ last'.arg = IdText(n)) =>
                     (last'.msg = "Book not found." /\ db' = db /\ pc' = pc)
       /\ \A n \in 1..(LoanLim.users + 1), b \in db.books :
              ((~\E u \in db.users : u.id = n) /\ b.status # "Issued") =>
                  \A issue_in \in {NoText, Malformed}, return_in \in {NoText, April1} :
                      issue_book(db, IdText(b.id), IdText(n), issue_in, return_in, Today)
                          = Printed("User not found.")
       /\ (last'.op = "issue_book" /\ last'.msg = "User not found.") =>
              (db' = db /\ pc' = pc)
       /\ \A n \in 1..(LoanLim.issues + 1) : (~\E i \in db.issues : i.id = n) =>
              /\ return_book(db, IdText(n)) = Printed("Issue record not found.")
              /\ (last'.op = "return_book" /\ last'.arg = IdText(n)) =>
                     (last'.msg = "Issue record not found." /\ db' = db /\ pc' = pc)]_vars

\* issue_book has been given an Available book and the number of no user
C7_Witness ==
    /\ last.op = "issue_book" /\ last.msg = "User not found."
    /\ \E b \in db.books : b.id = LastId /\ b.status = "Available"

\* C8: whatever issue_book does to the database file, the process stopping
\* between its writes included, it does both or neither: the file is as it
\* was, or holds one more open issues row for the book and the book Issued.
C8_IssueAtomic ==
    [][last'.op = "issue_book" =>
           \/ db' = db
           \/ \E b \in db.books, i \in db'.issues :
                  /\ i.book_id = b.id /\ i.returned = 0 /\ i \notin db.issues
                  /\ db'.issues = db.issues \cup {i}
                  /\ db'.books = (db.books \ {b}) \cup {[b EXCEPT !.status = "Issued"]}]_vars

\* the process has stopped between the writes of issue_book and its commit
C8_Witness ==
    /\ pc = "stopped" /\ last.op = "issue_book" /\ last.msg = "stopped"
    /\ \E b \in db.books : b.id = LastId /\ b.status = "Available"

\* the books and users sound: no book has two open loans, and a book with
\* an open loan is Issued
Sound(d) ==
    /\ \A i \in d.issues : Cardinality(OpenLoans(d, i.book_id)) <= 1
    /\ \A b \in d.books : OpenLoans(d, b.id) # {} => b.status = "Issued"

\* the step is update_book turning an Issued book Available
Reopens ==
    /\ last'.op = "update_book"
    /\ \E b \in db.books : b.status = "Issued" /\
           [b EXCEPT !.status = "Available"] \in db'.books

\* C2, as claimed: under every operation, no book has two issues rows with
\* returned = 0.
C2_AtMostOneOpenLoan ==
    \A i \in db.issues : Cardinality(OpenLoans(db, i.book_id)) <= 1

\* C2, amended: every operation other than an update_book that turns an
\* Issued book Available keeps the database sound, so that no book has two
\* open loans in a state reached without that override.
C2_SoundUnlessReopened == [][(Sound(db) /\ ~Reopens) => Sound(db')]_vars

\* update_book has set a book without a loan Issued, beside a book on loan
C2_Witness ==
    /\ Sound(db)
    /\ last.op = "update_book" /\ last.msg = "Book updated."
    /\ \E b \in db.books : b.status = "Issued" /\ OpenLoans(db, b.id) = {}
    /\ \E i \in db.issues : i.returned = 0 /\ i.id > SeedIssued

\* the day after dt, by the calendar
NextDay(dt) ==
    IF dt.d < DaysInMonth(dt.y, dt.m) THEN [dt EXCEPT !.d = @ + 1]
    ELSE IF dt.m < 12 THEN [dt EXCEPT !.m = @ + 1, !.d = 1]
    ELSE [y |-> dt.y + 1, m |-> 1, d |-> 1]

RECURSIVE DaysLater(_, _)
DaysLater(dt, k) == IF k = 0 THEN dt ELSE DaysLater(NextDay(dt), k - 1)

\* the issues row that a run of issue_book stores
Stored(r) ==
    LET v == r.steps[Len(r.steps)].view
    IN  CHOOSE i \in v.issues : i.id = v.seq.issues

\* C6: the row issue_book stores has, when no return date is typed, the
\* return date 14 calendar days after the issue date (2024-01-15 for
\* 2024-01-01), and otherwise the return date as typed.
C6_ReturnDate ==
    \A b \in db.books, u \in db.users, today \in Clock,
       issue_in \in DatesTyped, return_in \in {NoText, April1, Malformed} :
        LET r == issue_book(db, IdText(b.id), IdText(u.id), issue_in, return_in, today)
        IN  r.steps # << >> =>
                /\ Stored(r).issue_date = OrDefault(issue_in, Strftime(today))
                /\ return_in # NoText => Stored(r).return_date = return_in
                /\ return_in = NoText =>
                       /\ Strptime(Stored(r).return_date)
                              = DaysLater(Strptime(Stored(r).issue_date), 14)
                       /\ Stored(r).return_date
                              = Strftime(Strptime(Stored(r).return_date))
                /\ (return_in = NoText /\ issue_in = NewYear) =>
                       Stored(r).return_date
                           = << "2", "0", "2", "4", "-", "0", "1", "-", "1", "5" >>

\* a loan issued at the menu on 2024-01-01 with no return date typed
C6_Witness ==
    /\ last.op = "issue_book" /\ last.msg = "Book issued successfully."
    /\ \E i \in db.issues :
           /\ i.id = db.seq.issues /\ i.id > SeedIssued
           /\ i.issue_date = NewYear
           /\ i.return_date = << "2", "0", "2", "4", "-", "0", "1", "-", "1", "5" >>

\* C9: after the seed, an issues row appears only in a run of issue_book,
\* open; a row changes only in a run of return_book, its returned going from
\* 0 to 1 and nothing else; and no row disappears.
C9_LoanRecordLifecycle ==
    [][/\ \A i \in db.issues :
              \/ i \in db'.issues
              \/ /\ i.returned = 0
                 /\ [i EXCEPT !.returned = 1] \in db'.issues
                 /\ last'.op = "return_book"
       /\ \A j \in db'.issues : (~\E i \in db.issues : i.id = j.id) =>
              \/ last'.op = "issue_book" /\ j.returned = 0
              \/ last'.op = "main" /\ db.issues = {}
       /\ Cardinality(db'.issues) = Cardinality({j.id : j \in db'.issues})]_vars

\* a loan made at the menu has been returned, and its book deleted since
C9_Witness ==
    /\ last.op = "delete_book"
    /\ \E i \in db.issues :
           /\ i.id > SeedIssued /\ i.returned = 1
           /\ ~\E b \in db.books : b.id = i.book_id

\* C10, as claimed: no entry ends the process with an error.
C10_NeverFatal == pc # "crashed"

\* ------------------------------------------------------------- accounts

\* the account operations alone, from the seeded database
AcctLim ==
    Lim([books |-> SeedBooks, issued |-> SeedIssued, members |-> SeedMembers],
        AcctUsers, 0, 0)

NextAccounts ==
    \/ Start(AcctLim, {Today})
    \/ Login({"admin", "user1", "eve"}, {"admin123", "pass1", "pass2"})
    \/ Logout
    \/ Exit
    \/ CreateUser(AcctLim, {"eve", "user1"}, {"pass2"}, {"user", "admin", "staff"})
    \/ UpdateUser(AcctLim, {"eve", "admin"}, {"admin", "user", "staff"})
    \/ DeleteUser(AcctLim)
    \/ ResetUserPassword(AcctLim, {"user1", "nobody"}, {"pass2"})
    \/ ChangePassword(AcctLim, {"pass1", "pass2", ""})

SpecAccounts == Init /\ [][NextAccounts]_vars

\* C11: no two accounts share a username; create_user given the username of
\* an account, and update_user given for one account the username of
\* another, print the duplicate-username message and leave the database as
\* it was.
C11_UsernamesUnique ==
    [][/\ \A u, w \in db'.users : u.username = w.username => u = w
       /\ \A u \in db.users, pwd \in {"pass2", ""}, role \in Roles :
              menu_create_user(db, u.username, pwd, role)
                  = Printed("Error: Username already exists.")
       /\ \A u, w \in db.users, role \in Roles \cup {""} : u.id # w.id =>
              menu_update_user(db, IdText(u.id), w.username, role)
                  = Printed("Error: Username may already exist.")
       /\ last'.msg \in {"Error: Username already exists.",
                          "Error: Username may already exist."} =>
              (db' = db /\ pc' = pc)]_vars

\* update_user has been refused the username of another account, with an
\* account created at the menu in the table
C11_Witness ==
    /\ last.op = "update_user" /\ last.msg = "Error: Username may already exist."
    /\ \E u \in db.users : u.id > 1 + SeedMembers /\ u.username = "eve"
    /\ Cardinality(db.users) = Cardinality({u.username : u \in db.users})

\* C12: delete_book and delete_user remove the row they name, also when an
\* open loan references it, and leave every issues row and every other book
\* and user as they were.
C12_DeletesUnconditional ==
    [][/\ \A b \in db.books :
              /\ delete_book(db, IdText(b.id)).msg = "Book deleted (if existed)."
              /\ Committed(delete_book(db, IdText(b.id))) = [db EXCEPT !.books = @ \ {b}]
       /\ \A u \in db.users :
              /\ menu_delete_user(db, IdText(u.id)).msg = "User deleted (if existed)."
              /\ Committed(menu_delete_user(db, IdText(u.id)))
                     = [db EXCEPT !.users = @ \ {u}]
       /\ (last'.op = "delete_book" /\ last'.msg = "Book deleted (if existed).") =>
              /\ \E n \in 1..(AllLim.books + 1) : db'.books = {b \in db.books : b.id # n}
              /\ db'.issues = db.issues /\ db'.users = db.users /\ db'.seq = db.seq
              /\ pc' = pc
       /\ (last'.op = "delete_user" /\ last'.msg = "User deleted (if existed).") =>
              /\ \E n \in 1..(AllLim.users + 1) : db'.users = {u \in db.users : u.id # n}
              /\ db'.issues = db.issues /\ db'.books = db.books /\ db'.seq = db.seq
              /\ pc' = pc]_vars

\* delete_user has removed the borrower of an open loan whose book
\* delete_book had removed
C12_Witness ==
    /\ last.op = "delete_user" /\ last.msg = "User deleted (if existed)."
    /\ \E i \in db.issues :
           /\ i.returned = 0
           /\ ~\E b \in db.books : b.id = i.book_id
           /\ ~\E u \in db.users : u.id = i.user_id
           /\ i.book_id <= db.seq.books /\ i.user_id <= db.seq.users

\* C13: every book's status is 'Available' or 'Issued'; add_book stores the
\* new book as 'Available', and update_book given a status outside the two
\* keeps the status the book has.
C13_StatusOneOfTwo ==
    [][/\ \A b \in db'.books : b.status \in {"Available", "Issued"}
       /\ \A b \in db.books, status_in \in {"Lost", "available"} :
              LET r == update_book(db, IdText(b.id), "", "", "", status_in)
              IN  r.msg = "Book updated." /\ Committed(r) = db
       /\ Committed(add_book(db, "Dune", "Frank Herbert", "Fiction")).books
              = db.books \cup {[id |-> db.seq.books + 1, title |-> "Dune",
                                author |-> "Frank Herbert", category |-> "Fiction",
                                status |-> "Available"]}
       /\ last'.op = "add_book" =>
              \E b \in db'.books :
                  /\ b.id = db'.seq.books /\ b.status = "Available"
                  /\ db'.books = db.books \cup {b} /\ b \notin db.books
                  /\ db'.issues = db.issues /\ db'.users = db.users
       /\ last'.op = "update_book" =>
              \A b \in db.books : \E c \in db'.books :
                  c.id = b.id /\ c.status \in {b.status, "Available", "Issued"}]_vars

\* update_book has run with a book that add_book created in the table, set
\* Issued by hand, which an entry of 'Lost' would leave Issued
C13_Witness ==
    /\ last.op = "update_book" /\ last.msg = "Book updated."
    /\ \E b \in db.books :
           /\ b.id > SeedBooks /\ b.status = "Issued"
           /\ Committed(update_book(db, IdText(b.id), "", "", "", "Lost")) = db

\* C14: every account's role is 'admin' or 'user'; the menu's create and
\* update paths given any other role print the invalid-role message and
\* leave the database as it was.
C14_RoleOneOfTwo ==
    [][/\ \A u \in db'.users : u.role \in {"admin", "user"}
       /\ \A role \in {"staff", "Admin"}, username \in {"eve", "user1"} :
              menu_create_user(db, username, "pass2", role) = Printed("Invalid role.")
       /\ \A role \in {"staff", "Admin"}, uid \in IdInputs(AcctLim.users) \ {<< "x" >>},
             new_username \in {"", "eve"} :
              menu_update_user(db, uid, new_username, role) = Printed("Invalid role.")
       /\ last'.msg = "Invalid role." => (db' = db /\ pc' = pc)
       /\ last'.op \in {"create_user", "update_user"} =>
              \A u \in db'.users : \A w \in db.users :
                  (w.id = u.id /\ w.role # u.role) => u.role \in {"admin", "user"}]_vars

\* update_user has been refused a role, after it made the account created
\* at the menu an admin
C14_Witness ==
    /\ last.op = "update_user" /\ last.msg = "Invalid role."
    /\ \E u \in db.users : u.id > 1 + SeedMembers /\ u.role = "admin"
    /\ \E u \in db.users : u.role = "user"

\* the users of d, the accounts with an identifier in ids holding the hash of pwd
WithPassword(d, ids, pwd) ==
    {IF u.id \in ids THEN [u EXCEPT !.password = hash_password(pwd)] ELSE u : u \in d.users}

\* C15: authenticate succeeds exactly for the username of an account and
\* a secret whose hash the account stores; create_user, change_password and
\* reset_user_password each store the hash of the secret they accept, for
\* the account they name and no other, and no other operation changes a
\* stored hash; change_password stores nothing unless the two values typed
\* are non-blank and equal.
C15_Passwords ==
    [][/\ \A username \in {"admin", "user1", "eve", "nobody"},
             pwd \in {"admin123", "pass1", "pass2", ""} :
              authenticate(db, username, pwd) # {} <=>
                  \E u \in db.users : u.username = username /\ u.password = hash_password(pwd)
       /\ last'.op = "authenticate" =>
              (pc' # "main" <=> \E u \in db.users :
                                    u.id = session'.id /\ u.role = session'.role)
       /\ \A pwd \in {"pass1", "pass2", ""}, pwd2 \in {"pass1", "pass2", ""} :
              change_password(db, session.id, pwd, pwd2).steps # << >>
                  <=> (pwd # "" /\ pwd = pwd2)
       /\ (last'.op = "change_password" /\ last'.msg # "Password changed successfully.") =>
              (db' = db /\ pc' = "chpw")
       /\ (last'.op = "change_password" /\ last'.msg = "Password changed successfully.") =>
              \E pwd \in {"pass1", "pass2"} :
                  /\ db'.users = WithPassword(db, {session.id}, pwd)
                  /\ \A u \in db'.users : u.id = session.id =>
                         authenticate(db', u.username, pwd) = {u}
       /\ (last'.op = "reset_user_password"
               /\ last'.msg = "Password has been reset successfully.") =>
              \E username \in {"user1"} :
                  /\ db'.users = WithPassword(db, {u.id : u \in {w \in db.users : w.username = username}},
                                                  "pass2")
                  /\ \A u \in db'.users : u.username = username =>
                         authenticate(db', username, "pass2") = {u}
       /\ (last'.op = "create_user" /\ last'.msg = "User created:") =>
              \E u \in db'.users :
                  /\ u.id = db'.seq.users /\ u \notin db.users
                  /\ db'.users = db.users \cup {u}
                  /\ authenticate(db', u.username, "pass2") = {u}
       /\ last'.op \notin {"change_password", "reset_user_password", "create_user"} =>
              \A u \in db.users, w \in db'.users : u.id = w.id => u.password = w.password]_vars

\* the account created at the menu has logged in with the secret it chose
\* at change_password
C15_Witness ==
    /\ last.op = "authenticate" /\ pc = "user"
    /\ \E u \in db.users :
           /\ u.id = session.id /\ u.id > 1 + SeedMembers
           /\ u.username = "eve" /\ u.password = hash_password("pass1")

\* -------------------------------------------------------------- sessions

\* every operation of the two menus with one entry each, and a password a
\* member can change to
NextMember ==
    \/ Start(AllLim, {Today})
    \/ Login({"admin", "user1"}, {"admin123", "pass1"})
    \/ Logout
    \/ Exit
    \/ IssueBook(AllLim, {Today}, {NoText}, {NoText})
    \/ ReturnBook(AllLim)
    \/ AddBook(AllLim)
    \/ UpdateBook(AllLim, {""}, {"Available"})
    \/ DeleteBook(AllLim)
    \/ CreateUser(AllLim, {"eve"}, {"pass1"}, {"staff"})
    \/ UpdateUser(AllLim, {}, {"admin"})
    \/ DeleteUser(AllLim)
    \/ ResetUserPassword(AllLim, {"user1"}, {"pass1"})
    \/ ChangePassword(AllLim, {"admin123"})

SpecMember == Init /\ [][NextMember]_vars

\* C16: while the account that logged in has the role 'user', a step is
\* return_book, change_password or the logout; it adds and removes no row;
\* return_book changes nothing but the returned flag of one loan and the
\* status of its book, change_password nothing but the password of the
\* account that logged in, and the logout nothing.
C16_MemberSession ==
    [][session.role = "user" =>
           /\ pc \in {"user", "chpw"}
           /\ last'.op \in {"return_book", "change_password", "logout"}
           /\ db'.seq = db.seq
           /\ {b.id : b \in db'.books} = {b.id : b \in db.books}
           /\ {u.id : u \in db'.users} = {u.id : u \in db.users}
           /\ {i.id : i \in db'.issues} = {i.id : i \in db.issues}
           /\ \A u \in db.users, w \in db'.users :
                  (u.id = w.id /\ u # w) =>
                      /\ last'.op = "change_password"
                      /\ u.id = session.id
                      /\ w = [u EXCEPT !.password = w.password]
           /\ \A i \in db.issues, j \in db'.issues :
                  (i.id = j.id /\ i # j) =>
                      /\ last'.op = "return_book"
                      /\ i.returned = 0 /\ j = [i EXCEPT !.returned = 1]
           /\ \A b \in db.books, c \in db'.books :
                  (b.id = c.id /\ b # c) =>
                      /\ last'.op = "return_book"
                      /\ c = [b EXCEPT !.status = "Available"]
                      /\ \E i \in db.issues :
                             i.book_id = b.id /\ i.returned = 0 /\ i \notin db'.issues
           /\ last'.op = "logout" => db' = db]_vars

\* a member who has changed the password of the account has returned a loan
C16_Witness ==
    /\ pc = "user" /\ session.role = "user"
    /\ last.op = "return_book" /\ last.msg = "Book returned successfully."
    /\ \E u \in db.users :
           u.id = session.id /\ u.role = "user" /\ u.password = hash_password("admin123")
    /\ \E i \in db.issues : i.id = LastId /\ i.returned = 1

\* the identifiers of the rows of a table
Ids(rows) == {r.id : r \in rows}

\* the loans of d whose book is no longer in the table
Dangling(d) == {i \in d.issues : i.book_id \notin Ids(d.books)}

====
